---- MODULE Spec2Model ----
(***************************************************************************)
(* A model of the Syariah Appeal Board case database (streamlit_app.py):   *)
(* the field extractors, the record builder and upload loop, the corpus    *)
(* store (save_df / load_df_cached / clear_database) and the three search  *)
(* functions.                                                              *)
(*                                                                         *)
(* Representation.  A Python str is a TLA+ string; its characters are read *)
(* with SubSeq.  A document text is represented by text.split('\n'), the   *)
(* sequence of its lines (a bijection between strings and non-empty        *)
(* sequences of newline-free strings).  A Python list is a sequence, and   *)
(* None / a value is the empty / the one-element sequence (None, Some).    *)
(* Inputs are drawn over printable ASCII, so of the dash-like characters   *)
(* the patterns name only "-" can occur.                                   *)
(***************************************************************************)
EXTENDS Integers, Sequences, FiniteSets, TLC

(***************************************************************************)
(* Bounds of the model.                                                    *)
(***************************************************************************)
\* the longest batch of files put in the uploader
MaxBatch == 2
\* the longest text (in lines) given to an extractor on its own
MaxLines == 3
\* the largest corpus (in records) given to a search function on its own
MaxCorpus == 2

(***************************************************************************)
(* Python values.                                                          *)
(***************************************************************************)
None == <<>>
Some(x) == <<x>>

(***************************************************************************)
(* str: characters, classes, case, order.                                  *)
(***************************************************************************)
\* s[i-1:j], a slice with its ends clamped to the string (or list)
Sub(s, i, j) ==
  LET a == IF i < 1 THEN 1 ELSE i
      b == IF j > Len(s) THEN Len(s) ELSE j
  IN  IF a > b THEN SubSeq(s, 1, 0) ELSE SubSeq(s, a, b)

\* the character s[i-1], "" outside the string
At(s, i) == IF 1 <= i /\ i <= Len(s) THEN SubSeq(s, i, i) ELSE ""

\* the printable ASCII characters 32 (space) to 95 (_), in code-point order
AsciiLow == " !\"#$%&'()*+,-./0123456789:;<=>?@ABCDEFGHIJKLMNOPQRSTUVWXYZ[\\]^_"

\* the characters 97 (a) to 126 (~)
AsciiLetters == "abcdefghijklmnopqrstuvwxyz{|}~"

\* the alphabet of the model's strings: the above and the tab
AsciiChars ==
  {At(AsciiLow, i) : i \in 1..Len(AsciiLow)} \cup {At(AsciiLetters, i) : i \in 1..Len(AsciiLetters)}
  \cup {"\t"}

\* ord(c)
Ord ==
  [c \in AsciiChars |->
     IF c = "\t" THEN 9
     ELSE IF \E i \in 1..Len(AsciiLow) : At(AsciiLow, i) = c
     THEN 31 + CHOOSE i \in 1..Len(AsciiLow) : At(AsciiLow, i) = c
     ELSE 96 + CHOOSE i \in 1..Len(AsciiLetters) : At(AsciiLetters, i) = c]

\* chr(n)
Chr(n) == IF n = 9 THEN "\t" ELSE IF n <= 95 THEN At(AsciiLow, n - 31) ELSE At(AsciiLetters, n - 96)

Digits == {"0", "1", "2", "3", "4", "5", "6", "7", "8", "9"}

Upper == {Chr(n) : n \in 65..90}

Letters == {Chr(n) : n \in (65..90) \cup (97..122)}

\* \s
Whitespace == {" ", "\t"}

\* \w
WordChars == Letters \cup Digits \cup {"_"}

\* str.lower() of one character
LowerChar == [c \in AsciiChars |-> IF c \in Upper THEN Chr(Ord[c] + 32) ELSE c]

RECURSIVE Lower(_)
\* str.lower()
Lower(s) == IF s = "" THEN "" ELSE LowerChar[SubSeq(s, 1, 1)] \o Lower(SubSeq(s, 2, Len(s)))

\* s[i-1:i-1+len(p)] == p, the literal p at (1-based) position i of s
LitAt(s, i, p) == i >= 1 /\ i + Len(p) - 1 <= Len(s) /\ Sub(s, i, i + Len(p) - 1) = p

\* the same, ignoring case (re.IGNORECASE)
LitAtCI(s, i, p) == LitAt(Lower(s), i, Lower(p))

\* p in s
Contains(s, p) == \E i \in 1..(Len(s) + 1) : LitAt(s, i, p)

\* s.startswith(p)
StartsWith(s, p) == LitAt(s, 1, p)

\* every character of s[i-1:j] is in class C
AllIn(s, i, j, C) == \A k \in i..j : At(s, k) \in C

\* the end (inclusive) of the longest run of characters of class C that starts at i; i-1 if none
RunEnd(s, i, C) == CHOOSE e \in (i - 1)..Len(s) : AllIn(s, i, e, C) /\ (e = Len(s) \/ At(s, e + 1) \notin C)

\* str.strip()
Strip(s) ==
  IF AllIn(s, 1, Len(s), Whitespace) THEN ""
  ELSE Sub(s, CHOOSE i \in 1..Len(s) : At(s, i) \notin Whitespace /\ AllIn(s, 1, i - 1, Whitespace),
              CHOOSE j \in 1..Len(s) : At(s, j) \notin Whitespace /\ AllIn(s, j + 1, Len(s), Whitespace))

\* \b at the gap before position i (between s[i-2] and s[i-1] in Python terms)
WordBoundary(s, i) == (At(s, i - 1) \in WordChars) # (At(s, i) \in WordChars)

RECURSIVE StrLess(_, _)
\* a < b on str: lexicographic by code point
StrLess(a, b) ==
  IF b = "" THEN FALSE
  ELSE IF a = "" THEN TRUE
  ELSE IF At(a, 1) = At(b, 1) THEN StrLess(Sub(a, 2, Len(a)), Sub(b, 2, Len(b)))
  ELSE Ord[At(a, 1)] < Ord[At(b, 1)]

RECURSIVE Insert(_, _)
\* x put in its place in the sorted sequence q (after the elements not greater)
Insert(q, x) ==
  IF q = <<>> THEN <<x>>
  ELSE IF StrLess(x, Head(q)) THEN <<x>> \o q
  ELSE <<Head(q)>> \o Insert(Tail(q), x)

RECURSIVE Sorted(_)
\* sorted(q) for a list of str
Sorted(q) == IF q = <<>> THEN <<>> ELSE Insert(Sorted(Tail(q)), Head(q))

RECURSIVE SetToSeq(_)
SetToSeq(S) == IF S = {} THEN <<>> ELSE LET x == CHOOSE x \in S : TRUE IN <<x>> \o SetToSeq(S \ {x})

\* set(q)
Range(q) == {q[i] : i \in 1..Len(q)}

\* sorted(set(q))
SortedSet(q) == Sorted(SetToSeq(Range(q)))

RECURSIVE SplitOn(_, _)
\* re.split(r'[C]', s) / s.split(c): the pieces of s between the characters of class C
SplitOn(s, C) ==
  IF \A i \in 1..Len(s) : At(s, i) \notin C THEN <<s>>
  ELSE LET i == CHOOSE i \in 1..Len(s) : At(s, i) \in C /\ \A k \in 1..(i - 1) : At(s, k) \notin C
       IN  <<Sub(s, 1, i - 1)>> \o SplitOn(Sub(s, i + 1, Len(s)), C)

RECURSIVE WordsOf(_)
\* the maximal runs of non-whitespace of a stripped string t
WordsOf(t) ==
  IF t = "" THEN <<>>
  ELSE <<Sub(t, 1, RunEnd(t, 1, AsciiChars \ Whitespace))>>
       \o WordsOf(Strip(Sub(t, RunEnd(t, 1, AsciiChars \ Whitespace) + 1, Len(t))))

\* s.split()
Words(s) == WordsOf(Strip(s))

\* int(s) for a string of digits
RECURSIVE StrToInt(_)
StrToInt(s) ==
  IF s = "" THEN 0
  ELSE 10 * StrToInt(Sub(s, 1, Len(s) - 1)) + (Ord[At(s, Len(s))] - 48)

RECURSIVE IntToStr(_)
\* str(n) for n >= 0
IntToStr(n) ==
  IF n < 10 THEN Chr(48 + n)
  ELSE IntToStr(n \div 10) \o Chr(48 + (n % 10))

\* a list comprehension with a filter: the elements of q that satisfy Test, in order
RECURSIVE SelectIdx(_, _)
SelectIdx(q, keep) ==
  IF q = <<>> THEN <<>>
  ELSE (IF 1 \in keep THEN <<Head(q)>> ELSE <<>>) \o SelectIdx(Tail(q), {i - 1 : i \in keep \ {1}})

RECURSIVE Concat(_)
\* the concatenation of a sequence of sequences
Concat(qq) == IF qq = <<>> THEN <<>> ELSE Head(qq) \o Concat(Tail(qq))

\* str.replace(old, new) with old non-empty: every occurrence, left to right
RECURSIVE Replace(_, _, _)
Replace(s, old, new) ==
  IF ~Contains(s, old) THEN s
  ELSE LET i == CHOOSE i \in 1..Len(s) : LitAt(s, i, old) /\ \A k \in 1..(i - 1) : ~LitAt(s, k, old)
       IN  Sub(s, 1, i - 1) \o new \o Replace(Sub(s, i + Len(old), Len(s)), old, new)

(***************************************************************************)
(* Constants of the program.                                               *)
(***************************************************************************)
\* ISSUE_TOPICS, in the dict's order.  A keyword is used as a regular
\* expression: in "maintenance (child)" the parentheses group, so the
\* pattern reads the literal "maintenance child".
ISSUE_TOPICS ==
  << <<"Divorce Grounds",
       <<"talak", "fasakh", "khuluk", "nusyuz", "irretrievable breakdown",
         "judicial separation", "taklik", "pronouncement", "divorce",
         "fault", "reconciliation", "nullity", "consent order", "bain", "rajii">> >>,
     <<"Matrimonial Asset Division",
       <<"division", "apportion", "matrimonial asset", "matrimonial property", "property",
         "assets", "cpf", "hdb", "sale of flat", "valuation", "uplift", "refund", "ownership",
         "net sale proceeds", "structured approach", "direct financial",
         "indirect contribution", "asset pool">> >>,
     <<"Child Matters",
       <<"custody", "care and control", "access", "maintenance child", "parenting",
         "joint custody", "variation of custody", "hadhanah", "wilayah",
         "school", "accommodation", "child maintenance", "welfare",
         "guardianship", "minor child", "children">> >>,
     <<"Jurisdiction",
       <<"jurisdiction", "forum", "appeal board powers", "court jurisdiction",
         "s 35", "section 35", "s 526", "legal capacity", "variation", "procedural", "intervener">> >>,
     <<"Marriage",
       <<"marriage", "wali", "nikah", "consent", "registration",
         "polygamy", "remarry", "solemnisation", "validation", "dissolution">> >> >>

\* SHORTFORM_MAP, in the dict's order (the key spelt with a typographic
\* apostrophe is not ASCII and matches no string of the model)
SHORTFORM_MAP ==
  << <<"Administration of Muslim Law Act", "AMLA">>,
     <<"Women's Charter", "WC">> >>

\* the marker patterns: a pattern '^literal', with an optional character
\* ('Cases?') spelt out as its two literals
PatLegislation == {"Legislation referred to"}
PatQuranicVerse == {"Quranic verse"}
PatQuranicVerses == {"Quranic verse(s) referred to"}
PatCases == {"Case referred to", "Cases referred to"}
PatIssues == {"Issue for determination", "Issues for determination"}
PatBackground == {"Background"}

\* re.match(p, line, re.IGNORECASE) for a marker pattern
ReMatchMarker(p, line) == \E lit \in p : LitAtCI(line, 1, lit)

(***************************************************************************)
(* extract_header_window                                                   *)
(***************************************************************************)
RECURSIVE HeaderLoop(_, _, _, _, _, _)
\* the for loop, at line i with the locals block and in_block
HeaderLoop(lines, i, in_block, block, start_pattern, stop_patterns) ==
  IF i > Len(lines) THEN block
  ELSE LET line == lines[i]
       IN  IF in_block /\ ((\E p \in stop_patterns : ReMatchMarker(p, line)) \/ Strip(line) = "")
           THEN block
           ELSE HeaderLoop(lines, i + 1,
                           in_block \/ ReMatchMarker(start_pattern, line),
                           IF in_block THEN Append(block, Strip(line)) ELSE block,
                           start_pattern, stop_patterns)

\* the loop entered with in_block already set: a window that does not wait
\* for the start marker
HeaderWindowFromTop(lines, start_pattern, stop_patterns) ==
  HeaderLoop(lines, 1, TRUE, <<>>, start_pattern, stop_patterns)

extract_header_window(lines, start_pattern, stop_patterns) ==
  HeaderLoop(lines, 1, FALSE, <<>>, start_pattern, stop_patterns)

(***************************************************************************)
(* add_short_forms                                                         *)
(***************************************************************************)
RECURSIVE ShortFormsLoop(_, _, _)
ShortFormsLoop(name, items, out_) ==
  IF items = <<>> THEN out_
  ELSE LET long == Head(items)[1]
           short == Head(items)[2]
       IN  ShortFormsLoop(name, Tail(items),
                          IF Contains(name, long) /\ ~Contains(name, short)
                          THEN Append(out_, Replace(name, long, short))
                          ELSE out_)

add_short_forms(name) == ShortFormsLoop(name, SHORTFORM_MAP, <<name>>)

(***************************************************************************)
(* extract_legislation_block                                               *)
(***************************************************************************)
StatuteWords == {"Act", "Charter", "Rules", "Ordinance"}

\* \b(?:Act|Charter|Rules|Ordinance)\b at position p: the keyword found, or ""
StatuteWordAt(line, p) ==
  IF \E w \in StatuteWords : LitAt(line, p, w) /\ WordBoundary(line, p) /\ WordBoundary(line, p + Len(w))
  THEN CHOOSE w \in StatuteWords : LitAt(line, p, w) /\ WordBoundary(line, p) /\ WordBoundary(line, p + Len(w))
  ELSE ""

\* re.match(r"^(.*?\b(?:Act|Charter|Rules|Ordinance)\b.*?)(?:\([^)]+\))?", line):
\* None, or Some(group(1)).  Both quantifiers are lazy and the last group is
\* optional, so group 1 ends with the first statute word.
MatchStatute(line) ==
  LET upTo(p) == Some(Sub(line, 1, p + Len(StatuteWordAt(line, p)) - 1))
      hits(ps) == IF ps = {} THEN None ELSE upTo(CHOOSE p \in ps : \A k \in ps : p <= k)
  IN  hits({p \in 1..Len(line) : StatuteWordAt(line, p) # ""})

\* re.match(r"^(.*?\b(?:Act|Charter|Rules|Ordinance)\b.*?)(?:[\s\.,;:]|$)", line):
\* group 1 runs on, lazily, to the first delimiter or the end of the line
MatchStatuteBare(line) ==
  LET upTo(e) ==
        Some(Sub(line, 1,
                 (CHOOSE k \in (e + 1)..(Len(line) + 1) :
                    /\ (k = Len(line) + 1 \/ At(line, k) \in Whitespace \cup {".", ",", ";", ":"})
                    /\ \A j \in (e + 1)..(k - 1) : At(line, j) \notin Whitespace \cup {".", ",", ";", ":"}) - 1))
      after(m) == IF m = None THEN None ELSE upTo(Len(m[1]))
  IN  after(MatchStatute(line))

\* (s|ss|section|r|rule|cap), in the order the alternatives are tried
SectionTypes == <<"s", "ss", "section", "r", "rule", "cap">>

AlphaNum == Letters \cup Digits

RECURSIVE TokenTailEnd(_, _)
\* (?:[A-Za-z]|(?:\([\dA-Za-z]+\))*)* from position i: the end of the longest
\* run of letters and parenthesised alphanumeric groups
TokenTailEnd(line, i) ==
  IF At(line, i) \in Letters THEN TokenTailEnd(line, i + 1)
  ELSE IF At(line, i) = "(" /\ RunEnd(line, i + 1, AlphaNum) >= i + 1
                          /\ At(line, RunEnd(line, i + 1, AlphaNum) + 1) = ")"
       THEN TokenTailEnd(line, RunEnd(line, i + 1, AlphaNum) + 2)
       ELSE i - 1

\* the pattern of section_tokens tried at position p: <<>> or <<type, token, end>>.
\* The first alternative that fits wins; [0-9]{1,4} takes four digits at most.
SectionTokenAt(line, p) ==
  LET fits(t) == /\ LitAt(line, p, t)
                 /\ At(line, RunEnd(line, p + Len(t), Whitespace) + 1) \in Digits
      token(t, d, e) == <<t, Sub(line, d, e), e>>
      digits(t, d, dEnd) == token(t, d, TokenTailEnd(line, dEnd + 1))
      typed(t, d) == digits(t, d, IF RunEnd(line, d, Digits) > d + 3 THEN d + 3 ELSE RunEnd(line, d, Digits))
      among(idx) == IF idx = {} THEN <<>>
                    ELSE typed(SectionTypes[CHOOSE k \in idx : \A j \in idx : k <= j],
                               RunEnd(line, p + Len(SectionTypes[CHOOSE k \in idx : \A j \in idx : k <= j]), Whitespace) + 1)
  IN  among({k \in 1..Len(SectionTypes) : fits(SectionTypes[k])})

RECURSIVE FindSectionTokens(_, _)
\* re.findall(r'(s|ss|section|r|rule|cap)\s*([0-9]{1,4}(?:[A-Za-z]|(?:\([\dA-Za-z]+\))*)*)', line)
\* from position `from`: the non-overlapping matches, leftmost first
FindSectionTokens(line, from) ==
  LET found(m) == <<<<m[1], m[2]>>>> \o FindSectionTokens(line, m[3] + 1)
      hits(ps) == IF ps = {} THEN <<>>
                  ELSE found(SectionTokenAt(line, CHOOSE p \in ps : \A k \in ps : p <= k))
  IN  hits({p \in from..Len(line) : SectionTokenAt(line, p) # <<>>})

\* the citations one (s_type, sect) pair adds for the statute stat
TokenCitations(stat, s_type, sect) ==
  LET cross(kept, names) ==
        Concat([i \in 1..Len(kept) |->
                  [j \in 1..Len(names) |-> names[j] \o " " \o s_type \o " " \o Strip(kept[i])]])
      split(parts) == cross(SelectIdx(parts, {i \in 1..Len(parts) : Strip(parts[i]) # ""}),
                            add_short_forms(stat))
  IN  split(SplitOn(sect, {",", ";", "/"}))

\* the body of the loop over block_lines: what one line appends to acts
LineCitations(line) ==
  LET cite(stat, section_tokens) ==
        Concat([k \in 1..Len(section_tokens) |->
                  TokenCitations(stat, section_tokens[k][1], section_tokens[k][2])])
      bare(m2) == IF m2 # None THEN add_short_forms(Strip(m2[1])) ELSE <<>>
      branch(m) == IF m # None THEN cite(Strip(m[1]), FindSectionTokens(line, 1))
                   ELSE bare(MatchStatuteBare(line))
  IN  branch(MatchStatute(line))

\* the loop over block_lines, and sorted(set(acts))
LegislationOf(block_lines) ==
  SortedSet(Concat([i \in 1..Len(block_lines) |-> LineCitations(block_lines[i])]))

extract_legislation_block(text_) ==
  LegislationOf(extract_header_window(text_, PatLegislation,
                                      {PatQuranicVerse, PatCases, PatIssues, PatBackground}))

(***************************************************************************)
(* extract_case_name_first_block                                           *)
(***************************************************************************)
\* lines[:30], the lines searched for the report-series banner
BannerLines == 30
\* lines[:7], the lines searched for a name when there is no banner
PrefixLines == 7
\* lines[start+1:start+12], the end of the window after the banner
BlockSpan == 12

\* [A-Z]{2,} over the whole of s
IsUpperWord(s) == Len(s) >= 2 /\ AllIn(s, 1, Len(s), Upper)

\* re.match(r"^[A-Z]{2,} v [A-Z]{2,}$", line)
MatchVersus(line) ==
  \E k \in 1..Len(line) :
    IsUpperWord(Sub(line, 1, k)) /\ LitAt(line, k + 1, " v ") /\ IsUpperWord(Sub(line, k + 4, Len(line)))

\* re.match(r"^[A-Z]{2,} v [A-Z]{2,}", line): the same, at the start of the line only
MatchVersusPrefix(line) ==
  \E k \in 1..Len(line) :
    IsUpperWord(Sub(line, 1, k)) /\ LitAt(line, k + 1, " v ") /\ IsUpperWord(Sub(line, k + 4, k + 5))

\* line.startswith("Re ") and re.match(r"^Re [A-Z]{2,}$", line)
MatchRe(line) == StartsWith(line, "Re ") /\ IsUpperWord(Sub(line, 4, Len(line)))

\* os.path.splitext(p): <<root, ext>>.  The extension starts at the last dot
\* after the last "/", unless only dots come before it in the file name.
splitext(p) ==
  LET sepIndex == IF \E i \in 1..Len(p) : At(p, i) = "/"
                  THEN CHOOSE i \in 1..Len(p) : At(p, i) = "/" /\ \A k \in (i + 1)..Len(p) : At(p, k) # "/"
                  ELSE 0
      dotIndex == IF \E i \in 1..Len(p) : At(p, i) = "."
                  THEN CHOOSE i \in 1..Len(p) : At(p, i) = "." /\ \A k \in (i + 1)..Len(p) : At(p, k) # "."
                  ELSE 0
  IN  IF dotIndex > sepIndex /\ \E k \in (sepIndex + 1)..(dotIndex - 1) : At(p, k) # "."
      THEN <<Sub(p, 1, dotIndex - 1), Sub(p, dotIndex, Len(p))>>
      ELSE <<p, "">>

\* the first element of q that satisfies one of the single-line patterns, or None
FirstNameLine(q) ==
  LET hits(is) == IF is = {} THEN None ELSE Some(q[CHOOSE i \in is : \A k \in is : i <= k])
  IN  hits({i \in 1..Len(q) : MatchVersus(q[i]) \/ MatchRe(q[i])})

\* the fallback: os.path.splitext(filename)[0]
FilenameStem(filename) == splitext(filename)[1]

extract_case_name_first_block(text_, filename) ==
  LET isBanner(line) == \/ Contains(line, "SYARIAH APPEALS REPORTS")
                        \/ (Contains(line, "SSAR") /\ Contains(line, "REPORTS"))
      orStem(hit) == IF hit # None THEN hit[1] ELSE FilenameStem(filename)
      three(block, j) == /\ IsUpperWord(block[j])
                         /\ Lower(block[j + 1]) = "v"
                         /\ IsUpperWord(block[j + 2])
      joined(block, js) ==
        IF js # {}
        THEN block[CHOOSE j \in js : \A k \in js : j <= k] \o " v "
             \o block[(CHOOSE j \in js : \A k \in js : j <= k) + 2]
        ELSE orStem(FirstNameLine(block))
      inBlock(block) == joined(block, {j \in 1..(Len(block) - 2) : three(block, j)})
      from(lines, starts) ==
        IF starts = {}
        THEN orStem(FirstNameLine(Sub(lines, 1, PrefixLines)))
        ELSE inBlock(Sub(lines, (CHOOSE i \in starts : \A k \in starts : i <= k) + 1,
                                (CHOOSE i \in starts : \A k \in starts : i <= k) + BlockSpan - 1))
      of(lines) == from(lines, {i \in 1..Len(Sub(lines, 1, BannerLines)) : isBanner(lines[i])})
      nonBlank(stripped) == of(SelectIdx(stripped, {i \in 1..Len(stripped) : stripped[i] # ""}))
  IN  nonBlank([i \in 1..Len(text_) |-> Strip(text_[i])])

(***************************************************************************)
(* extract_year                                                            *)
(***************************************************************************)
\* (20\d{2}|19\d{2}) at position p
YearAt(line, p) ==
  /\ LitAt(line, p, "20") \/ LitAt(line, p, "19")
  /\ At(line, p + 2) \in Digits /\ At(line, p + 3) \in Digits

\* None, or Some(int(years[0]))
extract_year(text_) ==
  LET first(h) == Some(StrToInt(Sub(text_[h[1]], h[2], h[2] + 3)))
      of(hits) == IF hits = {} THEN None
                  ELSE first(CHOOSE h \in hits :
                               \A g \in hits : h[1] < g[1] \/ (h[1] = g[1] /\ h[2] <= g[2]))
  IN  of({h \in UNION {{<<i, p>> : p \in 1..Len(text_[i])} : i \in 1..Len(text_)} :
            YearAt(text_[h[1]], h[2])})

(***************************************************************************)
(* extract_headnotes, assign_topic_groups                                  *)
(***************************************************************************)
\* text.split('\n')[:160]
HeadnoteLines == 160

\* the dash-like separators of the pattern that are ASCII
DashChars == {"-"}

\* what one line appends to headnotes
LineHeadnotes(line) ==
  LET keep(cleaned) ==
        SelectIdx(cleaned, {i \in 1..Len(cleaned) :
                              /\ cleaned[i] # ""
                              /\ Len(Words(cleaned[i])) > 2
                              /\ ~StartsWith(Lower(cleaned[i]), "syariah appeal board")})
      clean(items) == keep([i \in 1..Len(items) |-> Strip(items[i])])
  IN  IF \A i \in 1..Len(line) : At(line, i) \notin DashChars THEN <<>>
      ELSE clean(SplitOn(line, DashChars))

extract_headnotes(text_) ==
  SortedSet(Concat([i \in 1..Len(Sub(text_, 1, HeadnoteLines)) |-> LineHeadnotes(text_[i])]))

\* re.search(rf"\b{k}\b", h_lc)
KeywordIn(k, h_lc) ==
  \E p \in 1..Len(h_lc) : LitAt(h_lc, p, k) /\ WordBoundary(h_lc, p) /\ WordBoundary(h_lc, p + Len(k))

\* no fallback at all: the empty list
NoTopicAtAll == <<>>

\* the fallback of assign_topic_groups
NoTopic == <<"Other">>

assign_topic_groups(headnotes) ==
  LET result(assigned) == IF assigned # {} THEN Sorted(SetToSeq(assigned)) ELSE NoTopic
  IN  result({ISSUE_TOPICS[g][1] : g \in
                {g \in 1..Len(ISSUE_TOPICS) :
                   \E i \in 1..Len(headnotes) :
                     \E j \in 1..Len(ISSUE_TOPICS[g][2]) :
                       KeywordIn(ISSUE_TOPICS[g][2][j], Lower(headnotes[i]))}})

(***************************************************************************)
(* extract_cases_referred_block                                            *)
(***************************************************************************)
extract_cases_referred_block(text_) ==
  LET kept(cases) == SortedSet([i \in 1..Len(cases) |-> Strip(cases[i])])
      of(block_lines) ==
        kept(SelectIdx(block_lines, {i \in 1..Len(block_lines) :
               \/ MatchVersusPrefix(block_lines[i])
               \/ StartsWith(block_lines[i], "Re ")
               \/ Contains(block_lines[i], "SSAR")
               \/ Contains(block_lines[i], "SGSAB")}))
  IN  of(extract_header_window(text_, PatCases,
                               {PatLegislation, PatQuranicVerse, PatIssues, PatBackground}))

(***************************************************************************)
(* extract_quranic_verses_block                                            *)
(*                                                                         *)
(* A call either returns a list or raises ValueError: its result is        *)
(* [raised |-> FALSE, value |-> list] or [raised |-> TRUE, value |-> <<>>].*)
(***************************************************************************)
Returns(v) == [raised |-> FALSE, value |-> v]
Raises == [raised |-> TRUE, value |-> <<>>]

\* r'Surah\s*(\d+)' (re.IGNORECASE) tried at position p: <<>> or <<group 1, end>>
SurahAt(l, p) ==
  LET number(d) == IF At(l, d) \in Digits
                   THEN <<Sub(l, d, RunEnd(l, d, Digits)), RunEnd(l, d, Digits)>>
                   ELSE <<>>
  IN  IF LitAtCI(l, p, "Surah") THEN number(RunEnd(l, p + 5, Whitespace) + 1) ELSE <<>>

\* r'Surah\s*(\d+)\s*[:]\s*(\d+)' (re.IGNORECASE) tried at position p:
\* <<>> or <<group 1, group 2, end>>
SurahVerseAt(l, p) ==
  LET verseNo(surah, d) == IF At(l, d) \in Digits
                           THEN <<surah, Sub(l, d, RunEnd(l, d, Digits)), RunEnd(l, d, Digits)>>
                           ELSE <<>>
      colon(surah, c) == IF At(l, c) = ":" THEN verseNo(surah, RunEnd(l, c + 1, Whitespace) + 1) ELSE <<>>
      after(m) == IF m = <<>> THEN <<>> ELSE colon(m[1], RunEnd(l, m[2] + 1, Whitespace) + 1)
  IN  after(SurahAt(l, p))

\* [\d,\- ], the ASCII characters of the class of a verse argument
VerseChars == Digits \cup {",", "-", " "}

\* r'verse[s]?\s*([\d,\- ]+)' (re.IGNORECASE) tried at position p: <<>> or
\* <<group 1, end>>.  \s* gives back white space until the group can start.
VerseAt(l, p) ==
  LET group(d) == <<Sub(l, d, RunEnd(l, d, VerseChars)), RunEnd(l, d, VerseChars)>>
      latest(ds) == IF ds = {} THEN <<>> ELSE group(CHOOSE d \in ds : \A k \in ds : k <= d)
      from(s) == latest({d \in s..(RunEnd(l, s, Whitespace) + 1) : At(l, d) \in VerseChars})
  IN  IF LitAtCI(l, p, "verse")
      THEN from(IF At(l, p + 5) \in {"s", "S"} THEN p + 6 ELSE p + 5)
      ELSE <<>>

\* the three patterns of the loop body, each tried at position p
MatchAt(pattern, l, p) ==
  CASE pattern = "surah" -> SurahAt(l, p)
    [] pattern = "verse" -> VerseAt(l, p)
    [] pattern = "surah:verse" -> SurahVerseAt(l, p)

RECURSIVE FindAll(_, _, _)
\* re.findall / re.finditer of a pattern from position `from` (a match being
\* <<>> or a tuple that ends with the match's end): the non-overlapping
\* matches, leftmost first
FindAll(pattern, l, from) ==
  LET found(m) == <<m>> \o FindAll(pattern, l, m[Len(m)] + 1)
      hits(ps) == IF ps = {} THEN <<>>
                  ELSE found(MatchAt(pattern, l, CHOOSE p \in ps : \A k \in ps : p <= k))
  IN  hits({p \in from..Len(l) : MatchAt(pattern, l, p) # <<>>})

\* re.search(r'\d+[-]\d+', frag)
HasRange(frag) ==
  \E i \in 1..Len(frag) : At(frag, i - 1) \in Digits /\ At(frag, i) \in DashChars /\ At(frag, i + 1) \in Digits

\* int(x) succeeds: digits, with white space around them allowed
IsIntLiteral(x) == Strip(x) # "" /\ AllIn(Strip(x), 1, Len(Strip(x)), Digits)

\* str.isdigit()
IsDigit(x) == x # "" /\ AllIn(x, 1, Len(x), Digits)

\* what one fragment of a verse argument adds for a surah, or the raise of
\* "a, b = re.split(...)" or of int()
FragmentVerses(surah, frag_) ==
  LET range(a, b) == Returns([k \in 1..(IF b + 1 > a THEN b + 1 - a ELSE 0) |->
                                surah \o ":" \o IntToStr(a + k - 1)])
      unpack(ab) == IF Len(ab) # 2 \/ ~IsIntLiteral(ab[1]) \/ ~IsIntLiteral(ab[2]) THEN Raises
                    ELSE range(StrToInt(Strip(ab[1])), StrToInt(Strip(ab[2])))
      of(frag) == IF HasRange(frag) THEN unpack(SplitOn(frag, DashChars))
                  ELSE IF IsDigit(frag) THEN Returns(<<surah \o ":" \o frag>>)
                  ELSE Returns(<<>>)
  IN  of(Strip(frag_))

\* the results of a sequence of calls, joined: a raise if one of them raises
JoinResults(rs) ==
  IF \E i \in 1..Len(rs) : rs[i].raised THEN Raises
  ELSE Returns(Concat([i \in 1..Len(rs) |-> rs[i].value]))

\* the body of the loop over block_lines: what one line adds to verses
LineVerses(l) ==
  LET ofPart(surah, frags) == JoinResults([i \in 1..Len(frags) |-> FragmentVerses(surah, frags[i])])
      ofSurah(surah, vparts) ==
        JoinResults([v \in 1..Len(vparts) |-> ofPart(surah, SplitOn(vparts[v][1], {","}))])
      of(surah_matches, vparts, sv_short) ==
        JoinResults([i \in 1..Len(surah_matches) |-> ofSurah(surah_matches[i][1], vparts)]
                    \o <<Returns([i \in 1..Len(sv_short) |-> sv_short[i][1] \o ":" \o sv_short[i][2]])>>)
  IN  of(FindAll("surah", l, 1), FindAll("verse", l, 1), FindAll("surah:verse", l, 1))

\* the loop over block_lines, and sorted(set(verses))
VersesOf(block_lines) ==
  LET done(r) == IF r.raised THEN Raises ELSE Returns(SortedSet(r.value))
  IN  done(JoinResults([i \in 1..Len(block_lines) |-> LineVerses(block_lines[i])]))

extract_quranic_verses_block(text_) ==
  VersesOf(extract_header_window(text_, PatQuranicVerses,
                                 {PatLegislation, PatCases, PatIssues, PatBackground}))

extract_main_body(text_) == text_

(***************************************************************************)
(* The body of the upload loop for one file: the record appended to        *)
(* records, or the exception that leaves the loop.                         *)
(***************************************************************************)
BuildRecord(file) ==
  LET record(headnotes, quranic_verses) ==
        IF quranic_verses.raised THEN Raises
        ELSE Returns([caseName |-> extract_case_name_first_block(file.text, file.name),
                      year |-> extract_year(file.text),
                      headnotes |-> headnotes,
                      topicGroups |-> assign_topic_groups(headnotes),
                      legislationReferred |-> extract_legislation_block(file.text),
                      casesReferredTo |-> extract_cases_referred_block(file.text),
                      quranicVerses |-> quranic_verses.value,
                      mainBody |-> extract_main_body(file.text)])
  IN  record(extract_headnotes(file.text), extract_quranic_verses_block(file.text))

(***************************************************************************)
(* Search                                                                  *)
(***************************************************************************)
\* the characters normalize removes: [\s\(\)\[\]\.,:\-]
NormalizeDrops == Whitespace \cup {"(", ")", "[", "]", ".", ",", ":", "-"}

RECURSIVE DropChars(_, _)
DropChars(s, C) ==
  IF s = "" THEN ""
  ELSE (IF At(s, 1) \in C THEN "" ELSE At(s, 1)) \o DropChars(Sub(s, 2, Len(s)), C)

normalize(s) == DropChars(Lower(s), NormalizeDrops)

\* (s|ss|section), the section types of the search patterns
SearchTypes == {"s", "ss", "section"}

\* white space or the end of the citation after the section, and nothing else
TailSpaceOrEnd(leg, e) == At(leg, e) \in Whitespace \cup {""}

\* (\b|\() after the section
StrictTail(leg, e) == WordBoundary(leg, e) \/ At(leg, e) = "("

\* nothing asked after the subsection
ExactTail(leg, e) == TRUE

\* re.IGNORECASE search of r'(s|ss|section)\s*{re.escape(section)}' in leg,
\* followed by the tail of the strict or of the exact pattern at the
\* position after the match
SectionPatternSearch(leg, section_, strict) ==
  LET in(l, sec) ==
        \E p \in 1..Len(l) : \E t \in SearchTypes :
          /\ LitAt(l, p, t)
          /\ \E w \in 0..(RunEnd(l, p + Len(t), Whitespace) - (p + Len(t)) + 1) :
               /\ LitAt(l, p + Len(t) + w, sec)
               /\ IF strict THEN StrictTail(leg, p + Len(t) + w + Len(sec))
                            ELSE ExactTail(leg, p + Len(t) + w + Len(sec))
  IN  in(Lower(leg), Lower(section_))

\* pattern.search(leg) of search_legislation_section_strict
StrictPattern(leg, section_) == SectionPatternSearch(leg, section_, TRUE)

\* pattern.search(leg) of search_legislation_exact_subsection
ExactPattern(leg, exact_subsection) == SectionPatternSearch(leg, exact_subsection, FALSE)

\* the rows of df the mask selects: those with a citation that holds a
\* normalized keyword and that the pattern finds.  keywords is a list of str
\* (a str argument is wrapped in a list by the function).
LegislationMask(df, keywords, section_, strict) ==
  {i \in 1..Len(df) :
     \E n \in 1..Len(df[i].legislationReferred) : \E k \in 1..Len(keywords) :
       /\ Contains(normalize(df[i].legislationReferred[n]), normalize(keywords[k]))
       /\ IF strict THEN StrictPattern(df[i].legislationReferred[n], section_)
                    ELSE ExactPattern(df[i].legislationReferred[n], section_)}

\* sorted(df.loc[mask, "Case Name"])
CaseNames(df, mask) ==
  LET names(rows) == Sorted([i \in 1..Len(rows) |-> rows[i].caseName])
  IN  names(SelectIdx(df, mask))

search_legislation_section_strict(df, keywords, section_) ==
  CaseNames(df, LegislationMask(df, keywords, section_, TRUE))

search_legislation_exact_subsection(df, keywords, exact_subsection) ==
  CaseNames(df, LegislationMask(df, keywords, exact_subsection, FALSE))

\* any(verse_norm in normalize(v) for v in lst): containment in place of equality
VerseContains(lst, verse_query) ==
  \E n \in 1..Len(lst) : Contains(normalize(lst[n]), normalize(verse_query))

\* any(verse_norm == normalize(v) for v in lst)
VerseMatches(lst, verse_query) ==
  \E n \in 1..Len(lst) : normalize(verse_query) = normalize(lst[n])

search_quranic(df, verse_query) ==
  CaseNames(df, {i \in 1..Len(df) : VerseMatches(df[i].quranicVerses, verse_query)})

(***************************************************************************)
(* Sequences of bounded length over a set.                                 *)
(***************************************************************************)
SeqsUpTo(S, n) == UNION {[1..k -> S] : k \in 0..n}

(***************************************************************************)
(* The files offered to the uploader: a name and the text pdfplumber       *)
(* extracts.                                                               *)
(***************************************************************************)
File(name, text_) == [name |-> name, text |-> text_]

Files ==
  { File("a.pdf", <<"AB v CD", "Decided 2019",
                    "Division of matrimonial assets - CPF refund claim",
                    "Legislation referred to",
                    "Administration of Muslim Law Act (Cap 3) s 52(8)",
                    "Quranic verse(s) referred to",
                    "Surah 2 verse 282">>),
    File("b.pdf", <<"AB v CD",
                    "Legislation referred to",
                    "Administration of Muslim Law Act s 52",
                    "Quranic verse(s) referred to",
                    "Surah 2 : 282">>),
    File("c.pdf", <<"Re XY",
                    "Quranic verse(s) referred to",
                    "Surah 2 verses 1-2-3">>) }

\* BuildRecord over the files of the model
Built == [f \in Files |-> BuildRecord(f)]

(***************************************************************************)
(* The application.                                                        *)
(*                                                                         *)
(*   disk      case_data.pkl: None (no file) or Some(corpus)               *)
(*   cache     the memo st.cache_data keeps for load_df_cached(): None     *)
(*             (never called) or Some(the value its first call returned)   *)
(*   session   st.session_state: None (no "df" key) or Some(df), df being  *)
(*             None or Some(corpus)                                        *)
(*   uploaded  the files held by the file uploader                         *)
(*   keywords, section, verse   the three text inputs                      *)
(*   pc        "rerun" between clear_database()'s st.rerun() and the run   *)
(*             it starts, else "idle"                                      *)
(* and, observed of the last script run,                                   *)
(*   err       the exception that ended it ("none" if none)                *)
(*   saved     None, or Some(the corpus given to save_df)                  *)
(*   loaded    None, or Some(what its last load_df_cached() returned)      *)
(*   shown     the search results written: [leg, verse], each None or      *)
(*             Some(list), with legFn the search function called           *)
(*   cleared   clear_database() has run and save_df has not run since      *)
(*                                                                         *)
(* A corpus (DataFrame) is the sequence of its records.                    *)
(***************************************************************************)
VARIABLES disk, cache, session, uploaded, keywords, section, verse, pc,
          err, saved, loaded, shown, cleared

appVars == <<disk, cache, session, uploaded, keywords, section, verse, pc,
             err, saved, loaded, shown, cleared>>

\* DATA_PATH written by df.to_pickle
save_df(df) == Some(df)

\* load_df_cached() with the memo c and the file d: the value returned and the memo after
load_df_cached(c, d) ==
  IF c # None THEN [value |-> c[1], cache |-> c]
  ELSE [value |-> d, cache |-> Some(d)]

NothingShown == [leg |-> None, verse |-> None, legFn |-> "none"]

\* the "Display / Search" section of the script for the local df
Display(df, kw, sec, vq) ==
  IF df # None /\ df[1] # <<>>
  THEN [leg |-> IF sec = "" THEN None
                ELSE IF Contains(sec, "(")
                     THEN Some(search_legislation_exact_subsection(df[1], <<kw>>, sec))
                     ELSE Some(search_legislation_section_strict(df[1], <<kw>>, sec)),
        legFn |-> IF sec = "" THEN "none"
                  ELSE IF Contains(sec, "(") THEN "search_legislation_exact_subsection"
                  ELSE "search_legislation_section_strict",
        verse |-> IF vq = "" THEN None ELSE Some(search_quranic(df[1], vq))]
  ELSE NothingShown

\* The rest of a script run once st.session_state.df is set: c1 is the memo,
\* df1 the local df and loaded1 what the load at the start returned (None if
\* it was not called).
AfterSessionInit(c1, df1, loaded1, files, kw, sec, vq, clicked) ==
  LET \* the end of a run that saves nothing
      ends(d, s, p, e, c, view) ==
        /\ disk' = d /\ cache' = c1 /\ session' = Some(s)
        /\ pc' = p /\ cleared' = c
        /\ err' = e /\ saved' = None /\ loaded' = loaded1
        /\ shown' = view
      \* save_df(pd.DataFrame(records)); st.session_state.df = load_df_cached()
      stored(records, second, view) ==
        /\ disk' = save_df(records) /\ cache' = second.cache /\ session' = Some(second.value)
        /\ pc' = "idle" /\ cleared' = FALSE
        /\ saved' = Some(records) /\ loaded' = Some(second.value)
        /\ IF second.value = None
           THEN \* len(df) of None
                err' = "TypeError" /\ shown' = NothingShown
           ELSE err' = "none" /\ shown' = view
      save(records, second) == stored(records, second, Display(second.value, kw, sec, vq))
      \* the loop over uploaded_files, built[i] being what the extractors do with file i
      loop(built) ==
        IF \E i \in 1..Len(built) : built[i].raised
        THEN \* an extractor raises inside the loop: the run ends there
             ends(disk, df1, "idle", "ValueError", cleared, NothingShown)
        ELSE save([i \in 1..Len(built) |-> built[i].value],
                  load_df_cached(c1, save_df([i \in 1..Len(built) |-> built[i].value])))
  IN  /\ uploaded' = files /\ keywords' = kw /\ section' = sec /\ verse' = vq
      /\ IF clicked
         THEN \* clear_database(): the file removed, the session reset, st.rerun()
              ends(None, None, "rerun", "none", TRUE, NothingShown)
         ELSE IF files # <<>>
         THEN loop([i \in 1..Len(files) |-> Built[files[i]]])
         ELSE ends(disk, df1, "idle", "none", cleared, Display(df1, kw, sec, vq))

\* One run of the script, top to bottom, from the memo c0 and the session
\* state s0, with the widgets holding files, kw, sec and vq, and the Clear
\* Database button pressed or not.
ScriptRun(c0, s0, files, kw, sec, vq, clicked) ==
  LET run(first) ==
        AfterSessionInit(first.cache, first.value, IF s0 = None THEN Some(first.value) ELSE None,
                         files, kw, sec, vq, clicked)
  IN  \* if "df" not in st.session_state: st.session_state.df = load_df_cached()
      run(IF s0 = None THEN load_df_cached(c0, disk) ELSE [value |-> s0[1], cache |-> c0])

\* the text inputs offered to the application
AppSections == {"", "52", "52(8)"}
AppVerses == {"", "2:282"}
DefaultKeywords == "AMLA"

(***************************************************************************)
(* The inputs and the result of a function applied on its own.             *)
(*   text, corpus   the document text / the DataFrame it is applied to     *)
(*   fn, args, out  the function applied last, its other arguments and     *)
(*                  what it returned                                       *)
(***************************************************************************)
VARIABLES text, corpus, fn, args, out

pureVars == <<text, corpus, fn, args, out>>

vars == <<appVars, pureVars>>

InitApp ==
  /\ disk = None /\ cache = None /\ session = None /\ uploaded = <<>>
  /\ keywords = DefaultKeywords /\ section = "" /\ verse = ""
  /\ pc = "idle" /\ err = "none" /\ saved = None /\ loaded = None
  /\ shown = NothingShown /\ cleared = FALSE

InitPure == text = <<>> /\ corpus = <<>> /\ fn = "none" /\ args = <<>> /\ out = <<>>

\* the user puts files in the uploader, or takes them out
Upload ==
  /\ pc = "idle"
  /\ \E files \in SeqsUpTo(Files, MaxBatch) :
       /\ files # uploaded
       /\ ScriptRun(cache, session, files, keywords, section, verse, FALSE)
  /\ UNCHANGED pureVars

\* the user presses Clear Database
ClickClear ==
  /\ pc = "idle"
  /\ ScriptRun(cache, session, uploaded, keywords, section, verse, TRUE)
  /\ UNCHANGED pureVars

\* the run st.rerun() starts
Rerun ==
  /\ pc = "rerun"
  /\ ScriptRun(cache, session, uploaded, keywords, section, verse, FALSE)
  /\ UNCHANGED pureVars

\* the user edits the section or the verse input
EditSearch ==
  /\ pc = "idle"
  /\ \E sec \in AppSections, vq \in AppVerses :
       /\ <<sec, vq>> # <<section, verse>>
       /\ ScriptRun(cache, session, uploaded, keywords, sec, vq, FALSE)
  /\ UNCHANGED pureVars

\* the page is opened anew: a fresh session state and fresh widgets
NewSession ==
  /\ pc = "idle"
  /\ ScriptRun(cache, None, <<>>, DefaultKeywords, "", "", FALSE)
  /\ UNCHANGED pureVars

\* the server process is started again and the page opened: the memo is gone too
Restart ==
  /\ pc = "idle"
  /\ ScriptRun(None, None, <<>>, DefaultKeywords, "", "", FALSE)
  /\ UNCHANGED pureVars

Init == InitApp /\ InitPure

Next ==
  \/ Upload
  \/ ClickClear
  \/ Rerun
  \/ EditSearch
  \/ NewSession
  \/ Restart

Spec == Init /\ [][Next]_vars

(***************************************************************************)
(* The search functions applied on their own to a corpus: a behaviour is   *)
(* one call, of any of them, on any corpus of the bound.                   *)
(***************************************************************************)
\* the documents the corpora are built from
SearchFiles ==
  { File("a.pdf", <<"AB v CD",
                    "Legislation referred to",
                    "Administration of Muslim Law Act (Cap 3) s 52(8)",
                    "Quranic verse(s) referred to",
                    "Surah 2 verse 282">>),
    File("b.pdf", <<"AB v CD",
                    "Legislation referred to",
                    "Administration of Muslim Law Act s 52",
                    "Quranic verse(s) referred to",
                    "Surah 2 : 282">>),
    File("e.pdf", <<"EF v GH",
                    "Legislation referred to",
                    "Women's Charter s 520",
                    "Quranic verse(s) referred to",
                    "Surah 2 verses 28, 2820">>) }

\* the records the record builder makes of them
SearchRecords == {BuildRecord(f).value : f \in SearchFiles}

\* the arguments offered to the search functions
SearchKeywords == {<<"AMLA">>, <<"Women's Charter">>}
SearchSections == {"52", "520"}
SearchSubsections == {"52(8)", "52"}
SearchVerses == {"2:282", "2:28", "2:2820", "2:282 ", "22:82"}

InitSearch ==
  /\ InitApp
  /\ text = <<>>
  /\ corpus \in SeqsUpTo(SearchRecords, MaxCorpus) \ {<<>>}
  /\ fn = "none" /\ args = <<>> /\ out = <<>>

CallSectionStrict ==
  /\ fn = "none"
  /\ \E kw \in SearchKeywords, sec \in SearchSections :
       /\ fn' = "search_legislation_section_strict"
       /\ args' = <<kw, sec>>
       /\ out' = search_legislation_section_strict(corpus, kw, sec)
  /\ UNCHANGED <<appVars, text, corpus>>

CallExactSubsection ==
  /\ fn = "none"
  /\ \E kw \in SearchKeywords, sub \in SearchSubsections :
       /\ fn' = "search_legislation_exact_subsection"
       /\ args' = <<kw, sub>>
       /\ out' = search_legislation_exact_subsection(corpus, kw, sub)
  /\ UNCHANGED <<appVars, text, corpus>>

CallQuranic ==
  /\ fn = "none"
  /\ \E vq \in SearchVerses :
       /\ fn' = "search_quranic"
       /\ args' = <<vq>>
       /\ out' = search_quranic(corpus, vq)
  /\ UNCHANGED <<appVars, text, corpus>>

NextSearch ==
  \/ CallSectionStrict
  \/ CallExactSubsection
  \/ CallQuranic

SpecSearch == InitSearch /\ [][NextSearch]_vars

(***************************************************************************)
(* The extractors and the record builder applied on their own to a text:   *)
(* a behaviour is one call, of any of them, on any text of the bound.      *)
(***************************************************************************)
\* the lines the texts are made of
ExtractLines ==
  { "Legislation referred to",
    "Administration of Muslim Law Act s 52(8)",
    "Administration of Muslim Law Act",
    "Administration of Muslim Law Act ss 52, 53",
    "",
    "Cases referred to",
    " AB v CD ",
    "Custody - care and control of the child" }

\* the names the files come with
ExtractFilenames == {"case.pdf", ".pdf", ""}

\* the (start_pattern, stop_patterns) of the calls in extract_legislation_block
\* and in extract_cases_referred_block
HeaderWindowCalls ==
  { <<PatLegislation, {PatQuranicVerse, PatCases, PatIssues, PatBackground}>>,
    <<PatCases, {PatLegislation, PatQuranicVerse, PatIssues, PatBackground}>> }

InitExtract ==
  /\ InitApp
  /\ text \in SeqsUpTo(ExtractLines, MaxLines) \ {<<>>}
  /\ corpus = <<>>
  /\ fn = "none" /\ args = <<>> /\ out = <<>>

CallHeaderWindow ==
  /\ fn = "none"
  /\ \E call \in HeaderWindowCalls :
       /\ fn' = "extract_header_window"
       /\ args' = call
       /\ out' = extract_header_window(text, call[1], call[2])
  /\ UNCHANGED <<appVars, text, corpus>>

CallLegislationBlock ==
  /\ fn = "none"
  /\ fn' = "extract_legislation_block"
  /\ args' = <<>>
  /\ out' = extract_legislation_block(text)
  /\ UNCHANGED <<appVars, text, corpus>>

CallBuildRecord ==
  /\ fn = "none"
  /\ \E filename \in ExtractFilenames :
       /\ fn' = "BuildRecord"
       /\ args' = <<filename>>
       /\ out' = BuildRecord(File(filename, text))
  /\ UNCHANGED <<appVars, text, corpus>>

NextExtract ==
  \/ CallHeaderWindow
  \/ CallLegislationBlock
  \/ CallBuildRecord

SpecExtract == InitExtract /\ [][NextExtract]_vars

(***************************************************************************)
(* Properties of the application (Spec).                                   *)
(***************************************************************************)
\* the records of the files of a batch whose extractors do not raise
RecordsOfOthers(files) ==
  LET records(ok) == [i \in 1..Len(ok) |-> Built[ok[i]].value]
  IN  records(SelectIdx(files, {i \in 1..Len(files) : ~Built[files[i]].raised}))

\* C1: a script run over a non-empty batch is not ended by the exception of
\* an extractor, and the corpus it saves holds a record for every document
\* whose extractors do not raise and none for a document whose extractor raises.
C1_BatchIsolatesFailures ==
  (pc = "idle" /\ uploaded # <<>>) =>
     (err # "ValueError" /\ saved = Some(RecordsOfOthers(uploaded)))

\* C2: when a script run has saved a corpus, the load_df_cached() that
\* follows the save returns a corpus equal to the one saved, whatever loads,
\* saves and clears came before.
C2_SaveLoadRoundTrip == saved # None => loaded = Some(saved)

\* C3: right after clear_database() no persisted corpus exists and the
\* session's corpus is absent, and a load_df_cached() made after a clear and
\* before the next save returns absent.
C3_ClearResets ==
  /\ pc = "rerun" => (disk = None /\ session = Some(None))
  /\ (cleared /\ pc = "idle" /\ loaded # None) => loaded = Some(None)

(***************************************************************************)
(* Properties of the search functions (SpecSearch).                        *)
(***************************************************************************)
SearchFunctions ==
  {"search_legislation_section_strict", "search_legislation_exact_subsection", "search_quranic"}

IsSorted(q) == \A i \in 1..(Len(q) - 1) : ~StrLess(q[i + 1], q[i])

NoDuplicates(q) == \A i, j \in 1..Len(q) : q[i] = q[j] => i = j

\* C4: what each of the three search functions returns is sorted
\* lexicographically and holds no case name twice.
C4_SortedNoDuplicates == fn \in SearchFunctions => (IsSorted(out) /\ NoDuplicates(out))

\* the N of a subsection query N(x): what precedes its first parenthesis
SectionOf(sub) ==
  Sub(sub, 1, (CHOOSE i \in 1..Len(sub) : At(sub, i) = "(" /\ \A k \in 1..(i - 1) : At(sub, k) # "(") - 1)

\* C5: every case name search_legislation_exact_subsection returns for the
\* keywords and a subsection query N(x) is among those
\* search_legislation_section_strict returns for the same corpus and
\* keywords and the section N.
C5_ExactWithinStrict ==
  (fn = "search_legislation_exact_subsection" /\ Contains(args[2], "(")) =>
     Range(out) \subseteq
       Range(search_legislation_section_strict(corpus, args[1], SectionOf(args[2])))

\* the exact search for 52(8) returns a case
C5_Witness ==
  /\ fn = "search_legislation_exact_subsection"
  /\ args[2] = "52(8)"
  /\ out # <<>>

\* a is a part of b and not all of it: a proper prefix or a proper substring
ProperPart(a, b) == a # b /\ Contains(b, a)

\* the citations of the corpus that, normalized, equal the normalized query
EqualCitation(row, verse_query) ==
  \E n \in 1..Len(row.quranicVerses) : normalize(row.quranicVerses[n]) = normalize(verse_query)

\* C6: search_quranic returns the case names of exactly the records with a
\* citation that, normalized, equals the normalized query; a record whose
\* citations have the query only as a proper prefix or substring, or only as
\* an extension, is returned for no citation of its own.
C6_ExactMatchOnly ==
  fn = "search_quranic" =>
    /\ Range(out) = {corpus[i].caseName : i \in {k \in 1..Len(corpus) : EqualCitation(corpus[k], args[1])}}
    /\ \A i \in 1..Len(corpus) :
         (/\ \A n \in 1..Len(corpus[i].quranicVerses) :
                \/ ProperPart(normalize(args[1]), normalize(corpus[i].quranicVerses[n]))
                \/ ProperPart(normalize(corpus[i].quranicVerses[n]), normalize(args[1]))
          /\ \A k \in 1..Len(corpus) : corpus[k].caseName = corpus[i].caseName => ~EqualCitation(corpus[k], args[1]))
         => corpus[i].caseName \notin Range(out)

\* the query 2:28 against a corpus citing 2:282 in one case and 2:28 in
\* another returns the second case only
C6_Witness ==
  /\ fn = "search_quranic"
  /\ args[1] = "2:28"
  /\ \E i \in 1..Len(corpus) : corpus[i].caseName = "AB v CD" /\ "2:282" \in Range(corpus[i].quranicVerses)
  /\ out = <<"EF v GH">>

\* s reads a:b with integers a and b
IsSurahVerse(s) ==
  /\ Len(SplitOn(s, {":"})) = 2
  /\ IsIntLiteral(SplitOn(s, {":"})[1])
  /\ IsIntLiteral(SplitOn(s, {":"})[2])

\* the (surah, verse) pair of a:b
SurahVerseOf(s) ==
  <<StrToInt(Strip(SplitOn(s, {":"})[1])), StrToInt(Strip(SplitOn(s, {":"})[2]))>>

\* C11: for a query a:b with integers a and b, search_quranic returns a case
\* name only if a record of that name has a citation of surah a and verse b.
C11_SurahVerseDistinct ==
  (fn = "search_quranic" /\ IsSurahVerse(args[1])) =>
     \A name \in Range(out) :
       \E i \in 1..Len(corpus) :
         /\ corpus[i].caseName = name
         /\ \E n \in 1..Len(corpus[i].quranicVerses) :
              /\ IsSurahVerse(corpus[i].quranicVerses[n])
              /\ SurahVerseOf(corpus[i].quranicVerses[n]) = SurahVerseOf(args[1])

(***************************************************************************)
(* Properties of the extractors and the record builder (SpecExtract).      *)
(***************************************************************************)
\* the lines of the "Legislation referred to" block of a text
LegislationBlock(t) ==
  extract_header_window(t, PatLegislation, {PatQuranicVerse, PatCases, PatIssues, PatBackground})

\* the line holds a statute-type keyword
HasStatuteWord(line) == \E p \in 1..Len(line) : StatuteWordAt(line, p) # ""

\* the line holds a section-type token followed by a section number
HasSectionToken(line) == \E p \in 1..Len(line) : SectionTokenAt(line, p) # <<>>

\* the statute name of a line without section: the line up to the first
\* delimiter after its statute keyword
BareStatuteName(line) == Strip(MatchStatuteBare(line)[1])

\* C7: a line of the block that holds a statute-type keyword and no
\* section-type token with a number adds the bare statute name to the
\* result, in each of its short-form variants.
C7_BareStatuteName ==
  fn = "extract_legislation_block" =>
    \A line \in Range(LegislationBlock(text)) :
      (HasStatuteWord(line) /\ ~HasSectionToken(line)) =>
         Range(add_short_forms(BareStatuteName(line))) \subseteq Range(out)

\* the first section-type token of a line: <<type, token, end>>
FirstSectionToken(line) ==
  SectionTokenAt(line, CHOOSE p \in 1..Len(line) :
                         /\ SectionTokenAt(line, p) # <<>>
                         /\ \A k \in 1..(p - 1) : SectionTokenAt(line, k) = <<>>)

\* the section references that follow the first section-type token of a
\* line: from the start of the token on, the pieces between commas,
\* semicolons and slashes
ReferencesOf(line) ==
  LET pieces(tok) == SplitOn(Sub(line, tok[3] - Len(tok[2]) + 1, Len(line)), {",", ";", "/"})
  IN  {Strip(r) : r \in Range(pieces(FirstSectionToken(line)))} \ {""}

\* C8: a statute line with a section-type token followed by several
\* references separated by comma, semicolon or slash adds one citation for
\* each reference and each name variant of the statute.
C8_SplitReferences ==
  fn = "extract_legislation_block" =>
    \A line \in Range(LegislationBlock(text)) :
      (HasStatuteWord(line) /\ HasSectionToken(line)) =>
         \A ref \in ReferencesOf(line) :
           \A name \in Range(add_short_forms(Strip(MatchStatute(line)[1]))) :
             (name \o " " \o FirstSectionToken(line)[1] \o " " \o ref) \in Range(out)

\* name is found in the text: a trimmed line of it, or "X v Y" of three
\* trimmed lines X, v, Y in a row
NameFoundIn(t, name) ==
  \/ \E i \in 1..Len(t) : Strip(t[i]) = name
  \/ \E i \in 1..(Len(t) - 2) : name = Strip(t[i]) \o " v " \o Strip(t[i + 2])

\* C9: a record built from a text and a filename with a non-empty stem has a
\* non-empty caseName, a name found in the text or else the stem, and a
\* non-empty topicGroups, categories of ISSUE_TOPICS or else exactly
\* ["Other"].
C9_RecordInvariant ==
  (fn = "BuildRecord" /\ ~out.raised /\ FilenameStem(args[1]) # "") =>
     /\ out.value.caseName # ""
     /\ NameFoundIn(text, out.value.caseName) \/ out.value.caseName = FilenameStem(args[1])
     /\ out.value.topicGroups # <<>>
     /\ \/ out.value.topicGroups = <<"Other">>
        \/ Range(out.value.topicGroups) \subseteq {ISSUE_TOPICS[g][1] : g \in 1..Len(ISSUE_TOPICS)}

\* a record built from a text with neither a case name nor a headnote, with
\* the file name .pdf: both fallbacks apply
C9_Witness ==
  /\ fn = "BuildRecord"
  /\ args[1] = ".pdf"
  /\ ~out.raised
  /\ out.value.caseName = ".pdf"
  /\ out.value.topicGroups = <<"Other">>

\* a line that ends a window: blank, or matching a stop marker
EndsWindow(line, stop_patterns) ==
  Strip(line) = "" \/ \E p \in stop_patterns : ReMatchMarker(p, line)

\* the trimmed lines strictly between the line s and the first line after s
\* that ends a window (or the end of the input)
LinesAfter(lines, s, stop_patterns) ==
  LET upTo(e) == [k \in 1..(e - s - 1) |-> Strip(lines[s + k])]
  IN  upTo(CHOOSE e \in (s + 1)..(Len(lines) + 1) :
             /\ e = Len(lines) + 1 \/ EndsWindow(lines[e], stop_patterns)
             /\ \A k \in (s + 1)..(e - 1) : ~EndsWindow(lines[k], stop_patterns))

\* the window, stated from the positions of the markers
WindowOf(lines, start_pattern, stop_patterns) ==
  LET from(starts) == IF starts = {} THEN <<>>
                      ELSE LinesAfter(lines, CHOOSE s \in starts : \A k \in starts : s <= k, stop_patterns)
  IN  from({i \in 1..Len(lines) : ReMatchMarker(start_pattern, lines[i])})

\* C10: extract_header_window returns the trimmed lines strictly after the
\* first line matching the start marker and strictly before the first
\* following line that is blank or matches a stop marker (or the end of the
\* input), the empty sequence if no line matches the start marker, and the
\* same with any of the lines before the first start match taken away.
C10_HeaderWindow ==
  fn = "extract_header_window" =>
    /\ out = WindowOf(text, args[1], args[2])
    /\ \A d \in 0..(Len(text) - 1) :
         (\A k \in 1..d : ~ReMatchMarker(args[1], text[k])) =>
            extract_header_window(Sub(text, d + 1, Len(text)), args[1], args[2]) = out

\* a blank line comes first, the start marker second, and the window is not empty
C10_Witness ==
  /\ fn = "extract_header_window"
  /\ Len(text) = 3 /\ text[1] = "" /\ ReMatchMarker(args[1], text[2])
  /\ out = <<Strip(text[3])>> /\ out # <<"">>
====
